---- MODULE Spec2Model ----
(***************************************************************************)
(* Model of the floor-price bot (src/bot.py): the policies table behind    *)
(* the shared aiosqlite connection, and the four commands floor, pass,     *)
(* insert and remove as coroutines that suspend at their awaits.           *)
(*                                                                         *)
(* The table is kept twice: `visible` is what a statement run on the one   *)
(* shared connection reads (it includes the rows of the open transaction), *)
(* `committed` is what is durable in database.db.                          *)
(***************************************************************************)
EXTENDS Integers, Sequences, FiniteSets, TLC

VARIABLES visible, committed, proc, started

vars == <<visible, committed, proc, started>>

(***************************************************************************)
(* Bounds of the model.                                                    *)
(***************************************************************************)
MaxCmds == 3        \* command invocations in one behaviour
MaxCands == 2       \* search hits a response carries at most

Procs == {1, 2}                 \* commands that can be in flight together
Guilds == {1, 2}                \* ctx.guild.id
InsertGuilds == {1}             \* guilds insert is invoked in; guild 2 tracks nothing
Policies == {"p1", "p2"}        \* policy ids given to insert / remove
Collections == {"c1", "c2"}     \* collections the search endpoint knows

DefaultAmount == 5              \* fetch_collections(collection_name, amount=5)

Min(a, b) == IF a < b THEN a ELSE b

SeqsUpTo(S, n) == UNION {[1..k -> S] : k \in 0..n}

(***************************************************************************)
(* HTTP responses.  kind = "transport" stands for a request that raised    *)
(* (network failure, timeout, a body that does not parse); such an         *)
(* exception is not a FetchingException.                                   *)
(***************************************************************************)
Statuses == {200, 404, 500}

TransportFailure == [kind |-> "transport", status |-> 500]

\* GET /search/collections?nameQuery=..&size=<size>
SearchResponses(size) ==
    {TransportFailure}
    \cup {[kind |-> "http", status |-> s, has_collections |-> FALSE, collections |-> <<>>] :
            s \in Statuses}
    \cup {[kind |-> "http", status |-> 200, has_collections |-> TRUE, collections |-> cs] :
            cs \in SeqsUpTo(Collections, Min(size, MaxCands))}

\* GET /collection/<name>/floor ; floor is an integer, null, or the key is missing
FloorResponses ==
    {TransportFailure}
    \cup {[kind |-> "http", status |-> s, floor_kind |-> "null", floor |-> 0] : s \in Statuses}
    \cup {[kind |-> "http", status |-> 200, floor_kind |-> k, floor |-> 5000000] :
            k \in {"int", "missing"}}

\* GET /collection/<policy_id>/transactions?page=1&count=1
SaleResponses ==
    {TransportFailure}
    \cup {[kind |-> "http", status |-> s, transactions |-> "empty", amount_lovelace |-> 0] :
            s \in Statuses}
    \cup {[kind |-> "http", status |-> 200, transactions |-> "one", amount_lovelace |-> 1234567]}

\* GET api.opencnft.io/1/policy/<policy_id> ; complete = the three fields are numbers
PolicyResponses ==
    {TransportFailure}
    \cup {[kind |-> "http", status |-> s, complete |-> b] : s \in Statuses, b \in BOOLEAN}

(***************************************************************************)
(* Results of the fetch helpers: raised is "none", "FetchingException" or  *)
(* "Exception" (any other exception).                                      *)
(***************************************************************************)
Returned(v) == [raised |-> "none", value |-> v]
Raised(e, v) == [raised |-> e, value |-> v]

\* int(x) / 1000000, kept exact as whole ADA and millionths
Ada(lovelace) == [some |-> TRUE, whole |-> lovelace \div 1000000, micro |-> lovelace % 1000000]
None == [some |-> FALSE, whole |-> 0, micro |-> 0]

\* as if the 404 branch were missing
fetch_collections_without_404(resp) ==
    IF resp.kind = "transport" THEN Raised("Exception", <<>>)
    ELSE IF resp.status # 200 THEN Raised("FetchingException", <<>>)
    ELSE IF ~resp.has_collections \/ resp.collections = <<>> THEN Returned(<<>>)
    ELSE Returned(resp.collections)

fetch_collections(resp) ==
    IF resp.kind = "transport" THEN Raised("Exception", <<>>)
    ELSE IF resp.status = 404 THEN Returned(<<>>)
    ELSE IF resp.status # 200 THEN Raised("FetchingException", <<>>)
    ELSE IF ~resp.has_collections \/ resp.collections = <<>> THEN Returned(<<>>)
    ELSE Returned(resp.collections)

fetch_floor_price(resp) ==
    IF resp.kind = "transport" THEN Raised("Exception", None)
    ELSE IF resp.status = 404 THEN Returned(None)
    ELSE IF resp.status # 200 THEN Raised("FetchingException", None)
    ELSE IF resp.floor_kind = "missing" THEN Raised("Exception", None)
    ELSE IF resp.floor_kind = "null" THEN Returned(None)
    ELSE Returned(Ada(resp.floor))

fetch_last_sale(resp) ==
    IF resp.kind = "transport" THEN Raised("Exception", None)
    ELSE IF resp.status = 404 THEN Returned(None)
    ELSE IF resp.status # 200 THEN Raised("FetchingException", None)
    ELSE IF resp.transactions = "empty" THEN Returned(None)
    ELSE Returned(Ada(resp.amount_lovelace))

(***************************************************************************)
(* The policies table: a sequence of rows <<guild_id, policy_id>> in rowid *)
(* order.  The table declares no uniqueness constraint.                    *)
(***************************************************************************)
Row(guild_id, policy_id) == <<guild_id, policy_id>>

\* rows of the table equal to (guild_id, policy_id); used by the properties
RowCount(table, guild_id, policy_id) ==
    Cardinality({i \in DOMAIN table : table[i] = Row(guild_id, policy_id)})

GuildRowCount(table, guild_id) ==
    Cardinality({i \in DOMAIN table : table[i][1] = guild_id})

\* as if the two parameters were bound in the wrong order: no row ever matches
policy_id_exists_never_matches(table, guild_id, policy_id) == FALSE

policy_id_exists(table, guild_id, policy_id) ==
    \E i \in DOMAIN table : table[i][1] = guild_id /\ table[i][2] = policy_id

RECURSIVE SelectColumn(_)
SelectColumn(rows) ==
    IF rows = <<>> THEN <<>> ELSE <<rows[1][2]>> \o SelectColumn(Tail(rows))

IsGuild(guild_id, row) == row[1] = guild_id

\* as if the WHERE clause were missing
get_policy_ids_all_guilds(table, guild_id) == SelectColumn(table)

get_policy_ids(table, guild_id) ==
    LET Mine(row) == IsGuild(guild_id, row) IN SelectColumn(SelectSeq(table, Mine))

insert_row(table, guild_id, policy_id) == Append(table, Row(guild_id, policy_id))

RECURSIVE DeleteFirst(_, _)
DeleteFirst(table, row) ==
    IF table = <<>> THEN <<>>
    ELSE IF table[1] = row THEN Tail(table)
    ELSE <<table[1]>> \o DeleteFirst(Tail(table), row)

\* as if the DELETE removed one row only
delete_rows_limit_one(table, guild_id, policy_id) == DeleteFirst(table, Row(guild_id, policy_id))

delete_rows(table, guild_id, policy_id) ==
    LET Keep(row) == row # Row(guild_id, policy_id) IN SelectSeq(table, Keep)

(***************************************************************************)
(* A command in flight.  pc is the await the coroutine is suspended at;    *)
(* "done" keeps the outcome of the last run until the slot is used again.  *)
(*   items    policy_ids (pass) or collections (floor)                     *)
(*   index    0-based position of the loop in items                        *)
(*   out      description entries (pass) or messages sent (floor)          *)
(*   fetched  what the upstream answered for each item processed so far    *)
(*   search   what the search request of floor answered                    *)
(*   reqs     HTTP requests issued by this run                             *)
(*   sent     the report embed of pass was sent                            *)
(*   alone    no other command was in flight or started since this one     *)
(*            was invoked                                                  *)
(***************************************************************************)
IdleProc ==
    [pc |-> "idle", cmd |-> "none", guild_id |-> 1, policy_id |-> "p1", outcome |-> "none",
     alone |-> TRUE, search |-> "none", items |-> <<>>, index |-> 0, out |-> <<>>,
     fetched |-> <<>>, reqs |-> 0, sent |-> FALSE]

Free(c) == proc[c].pc \in {"idle", "done"}

Init ==
    /\ visible = <<>>
    /\ committed = <<>>
    /\ proc = [c \in Procs |-> IdleProc]
    /\ started = 0

\* the run of c ends; what it did stays readable in its slot
Ended(c, outcome) ==
    [proc[c] EXCEPT !.pc = "done", !.outcome = outcome]

\* the run of c is abandoned: its locals are gone
Abandoned(c) ==
    [IdleProc EXCEPT !.pc = "done", !.cmd = proc[c].cmd, !.guild_id = proc[c].guild_id,
                     !.policy_id = proc[c].policy_id, !.outcome = "cancelled",
                     !.alone = proc[c].alone]

\* what the claims call the answer of a search request
SearchClass(resp) ==
    IF resp.kind = "transport" THEN "transport"
    ELSE IF resp.status = 404 THEN "404"
    ELSE IF resp.status # 200 THEN "error"
    ELSE IF ~resp.has_collections THEN "missing"
    ELSE IF resp.collections = <<>> THEN "empty"
    ELSE "hits"

(***************************************************************************)
(* A command is invoked (the dispatcher creates its coroutine).  A run in   *)
(* flight in the other slot is no longer alone; the record of a run that   *)
(* has ended is kept only until the next command is invoked.               *)
(***************************************************************************)
Invoke(c, cmd, guild_id, policy_id, pc0) ==
    /\ Free(c)
    /\ \A d \in Procs : d < c => ~Free(d)      \* slots are interchangeable: take the first
    /\ started < MaxCmds
    /\ started' = started + 1
    /\ proc' = [d \in Procs |->
                  IF d = c
                  THEN [IdleProc EXCEPT !.pc = pc0, !.cmd = cmd, !.guild_id = guild_id,
                                        !.policy_id = policy_id,
                                        !.alone = \A e \in Procs \ {c} : Free(e)]
                  ELSE IF Free(d) THEN IdleProc
                  ELSE [proc[d] EXCEPT !.alone = FALSE]]
    /\ UNCHANGED <<visible, committed>>

InvokeInsert(c) ==
    \E g \in InsertGuilds, p \in Policies : Invoke(c, "insert", g, p, "insert_exists")

InvokeRemove(c) ==
    \E g \in Guilds, p \in Policies : Invoke(c, "remove", g, p, "remove_exists")

InvokePass(c) ==
    \E g \in Guilds : Invoke(c, "pass", g, IdleProc.policy_id, "pass_list")

InvokeFloor(c) ==
    Invoke(c, "floor", IdleProc.guild_id, IdleProc.policy_id, "floor_search")

(***************************************************************************)
(* insert                                                                  *)
(***************************************************************************)
\* if await policy_id_exists(...): return error_embed('already added')
InsertExists(c) ==
    /\ proc[c].pc = "insert_exists"
    /\ proc' = [proc EXCEPT ![c] =
                  IF policy_id_exists(visible, proc[c].guild_id, proc[c].policy_id)
                  THEN Ended(c, "already_added")
                  ELSE [@ EXCEPT !.pc = "insert_fetch"]]
    /\ UNCHANGED <<visible, committed, started>>

\* collections = await fetch_collections(policy_id, 1), with its two except clauses
InsertFetch(c) ==
    /\ proc[c].pc = "insert_fetch"
    /\ \E resp \in SearchResponses(1) :
         LET r == fetch_collections(resp)
             p == [proc[c] EXCEPT !.reqs = @ + 1]
         IN proc' = [proc EXCEPT ![c] =
                       IF r.raised = "FetchingException"
                       THEN [p EXCEPT !.pc = "done", !.outcome = "fetch_error"]
                       ELSE IF r.raised = "Exception"
                       THEN [p EXCEPT !.pc = "done", !.outcome = "unexpected_error"]
                       ELSE IF r.value = <<>>
                       THEN [p EXCEPT !.pc = "done", !.outcome = "invalid_policy"]
                       ELSE [p EXCEPT !.pc = "insert_execute"]]
    /\ UNCHANGED <<visible, committed, started>>

\* await bot.db.execute('INSERT INTO policies VALUES (?, ?)', ...)
InsertExecute(c) ==
    /\ proc[c].pc = "insert_execute"
    /\ visible' = insert_row(visible, proc[c].guild_id, proc[c].policy_id)
    /\ proc' = [proc EXCEPT ![c].pc = "insert_commit"]
    /\ UNCHANGED <<committed, started>>

\* await bot.db.commit(); await success_embed(...)
\* commit makes durable everything the shared connection has written
InsertCommit(c) ==
    /\ proc[c].pc = "insert_commit"
    /\ committed' = visible
    /\ proc' = [proc EXCEPT ![c] = Ended(c, "added")]
    /\ UNCHANGED <<visible, started>>

(***************************************************************************)
(* remove                                                                  *)
(***************************************************************************)
\* if not await policy_id_exists(...): return error_embed('not added')
RemoveExists(c) ==
    /\ proc[c].pc = "remove_exists"
    /\ proc' = [proc EXCEPT ![c] =
                  IF ~policy_id_exists(visible, proc[c].guild_id, proc[c].policy_id)
                  THEN Ended(c, "not_added")
                  ELSE [@ EXCEPT !.pc = "remove_execute"]]
    /\ UNCHANGED <<visible, committed, started>>

\* await bot.db.execute('DELETE FROM policies WHERE guild_id = ? AND policy_id = ?', ...)
RemoveExecute(c) ==
    /\ proc[c].pc = "remove_execute"
    /\ visible' = delete_rows(visible, proc[c].guild_id, proc[c].policy_id)
    /\ proc' = [proc EXCEPT ![c].pc = "remove_commit"]
    /\ UNCHANGED <<committed, started>>

\* await bot.db.commit(); await success_embed(...)
RemoveCommit(c) ==
    /\ proc[c].pc = "remove_commit"
    /\ committed' = visible
    /\ proc' = [proc EXCEPT ![c] = Ended(c, "removed")]
    /\ UNCHANGED <<visible, started>>

(***************************************************************************)
(* pass                                                                    *)
(***************************************************************************)
\* policy_ids = await get_policy_ids(ctx.guild.id); if not policy_ids: return error_embed(...)
PassList(c) ==
    /\ proc[c].pc = "pass_list"
    /\ LET policy_ids == get_policy_ids(visible, proc[c].guild_id)
       IN proc' = [proc EXCEPT ![c] =
                     IF policy_ids = <<>>
                     THEN Ended(c, "list_empty")
                     ELSE [@ EXCEPT !.pc = "pass_loop", !.items = policy_ids]]
    /\ UNCHANGED <<visible, committed, started>>

\* as if the entry were numbered by index instead of index + 1
description_entry_zero_based(index, name, policy_id, last_sale) ==
    [number |-> index, name |-> name, policy_id |-> policy_id, last_sale |-> last_sale]

\* f'**{index + 1}. {name}**\n ... Last sale: {await collection.fetch_last_sale()}\n\n'
description_entry(index, name, policy_id, last_sale) ==
    [number |-> index + 1, name |-> name, policy_id |-> policy_id, last_sale |-> last_sale]

\* the loop moves to the next policy id; after the last one the embed is sent
PassAdvance(p) ==
    IF p.index + 1 < Len(p.items)
    THEN [p EXCEPT !.index = @ + 1]
    ELSE [p EXCEPT !.index = @ + 1, !.pc = "done", !.outcome = "report_sent", !.sent = TRUE]

\* `continue`
PassSkip(p, tag, n) ==
    PassAdvance([p EXCEPT !.fetched = Append(@, tag), !.reqs = @ + n])

\* an exception nothing in _pass catches: the run ends, nothing is sent
PassRaise(p, tag, n) ==
    [p EXCEPT !.fetched = Append(@, tag), !.reqs = @ + n, !.pc = "done", !.outcome = "raised"]

PassAppend(p, entry, n) ==
    PassAdvance([p EXCEPT !.fetched = Append(@, "ok"), !.reqs = @ + n,
                          !.out = Append(@, entry)])

\* one iteration of `for index, policy_id in enumerate(policy_ids)`
PassEntry(c) ==
    /\ proc[c].pc = "pass_loop"
    /\ LET p == proc[c]
           policy_id == p.items[p.index + 1]
       IN \E sresp \in SearchResponses(1) :
            LET collections == fetch_collections(sresp) IN
            \/ /\ collections.raised = "FetchingException"
               /\ proc' = [proc EXCEPT ![c] = PassRaise(p, "search_error", 1)]
            \/ /\ collections.raised = "Exception"
               /\ proc' = [proc EXCEPT ![c] = PassRaise(p, "search_failure", 1)]
            \/ /\ collections.raised = "none"
               /\ collections.value = <<>>
               /\ proc' = [proc EXCEPT ![c] = PassSkip(p, "no_hit", 1)]
            \/ /\ collections.raised = "none"
               /\ collections.value # <<>>
               /\ \E presp \in PolicyResponses :
                    \/ /\ presp.kind = "transport"
                       /\ proc' = [proc EXCEPT ![c] = PassRaise(p, "policy_failure", 2)]
                    \/ /\ presp.kind = "http"
                       /\ presp.status = 404
                       /\ proc' = [proc EXCEPT ![c] = PassSkip(p, "policy_404", 2)]
                    \/ /\ presp.kind = "http"
                       /\ presp.status \notin {200, 404}
                       /\ proc' = [proc EXCEPT ![c] = PassSkip(p, "policy_error", 2)]
                    \/ /\ presp.kind = "http"
                       /\ presp.status = 200
                       /\ ~presp.complete
                       /\ proc' = [proc EXCEPT ![c] = PassRaise(p, "policy_failure", 2)]
                    \/ /\ presp.kind = "http"
                       /\ presp.status = 200
                       /\ presp.complete
                       /\ \E lresp \in SaleResponses :
                            LET last_sale == fetch_last_sale(lresp) IN
                            proc' = [proc EXCEPT ![c] =
                                       IF last_sale.raised = "FetchingException"
                                       THEN PassRaise(p, "sale_error", 3)
                                       ELSE IF last_sale.raised = "Exception"
                                       THEN PassRaise(p, "sale_failure", 3)
                                       ELSE PassAppend(p,
                                              description_entry(p.index, collections.value[1],
                                                                policy_id, last_sale.value),
                                              3)]
    /\ UNCHANGED <<visible, committed, started>>

(***************************************************************************)
(* floor                                                                   *)
(***************************************************************************)
\* collections = await fetch_collections(collection), its two except clauses,
\* and `if not collections: return error_embed("Couldn't find any collections ...")`
FloorSearch(c) ==
    /\ proc[c].pc = "floor_search"
    /\ \E resp \in SearchResponses(DefaultAmount) :
         LET r == fetch_collections(resp)
             p == [proc[c] EXCEPT !.reqs = @ + 1, !.search = SearchClass(resp)]
         IN proc' = [proc EXCEPT ![c] =
                       IF r.raised = "FetchingException"
                       THEN [p EXCEPT !.pc = "done", !.outcome = "fetch_error"]
                       ELSE IF r.raised = "Exception"
                       THEN [p EXCEPT !.pc = "done", !.outcome = "unexpected_error"]
                       ELSE IF r.value = <<>>
                       THEN [p EXCEPT !.pc = "done", !.outcome = "not_found"]
                       ELSE [p EXCEPT !.pc = "floor_loop", !.items = r.value]]
    /\ UNCHANGED <<visible, committed, started>>

\* what the claims call the answer of a floor-price request
FloorClass(resp) ==
    IF resp.kind = "transport" THEN "failure"
    ELSE IF resp.status = 404 THEN "absent"
    ELSE IF resp.status # 200 THEN "upstream_error"
    ELSE IF resp.floor_kind = "missing" THEN "failure"
    ELSE IF resp.floor_kind = "null" THEN "absent"
    ELSE "price"

FloorAdvance(p) ==
    IF p.index + 1 < Len(p.items)
    THEN [p EXCEPT !.index = @ + 1]
    ELSE [p EXCEPT !.index = @ + 1, !.pc = "done", !.outcome = "completed"]

\* one iteration of `for collection in collections`
FloorEntry(c) ==
    /\ proc[c].pc = "floor_loop"
    /\ \E resp \in FloorResponses :
         LET p == [proc[c] EXCEPT !.reqs = @ + 1, !.fetched = Append(@, FloorClass(resp))]
             collection == p.items[p.index + 1]
             floor_price == fetch_floor_price(resp)
         IN proc' = [proc EXCEPT ![c] =
                       IF floor_price.raised = "FetchingException"
                       THEN FloorAdvance([p EXCEPT !.out =
                              Append(@, [kind |-> "fetch_error", collection |-> collection,
                                         price |-> None])])
                       ELSE IF floor_price.raised = "Exception"
                       THEN [p EXCEPT !.pc = "done", !.outcome = "raised"]
                       ELSE IF ~floor_price.value.some
                       THEN FloorAdvance([p EXCEPT !.out =
                              Append(@, [kind |-> "no_floor_price", collection |-> collection,
                                         price |-> None])])
                       ELSE FloorAdvance([p EXCEPT !.out =
                              Append(@, [kind |-> "floor_price", collection |-> collection,
                                         price |-> floor_price.value])])]
    /\ UNCHANGED <<visible, committed, started>>

(***************************************************************************)
(* The caller abandons a run at the await it is suspended at               *)
(* (asyncio.CancelledError): nothing after that await runs.                *)
(***************************************************************************)
Cancel(c) ==
    /\ ~Free(c)
    /\ proc' = [proc EXCEPT ![c] = Abandoned(c)]
    /\ UNCHANGED <<visible, committed, started>>

(***************************************************************************)
(* The process stops and starts again: close() closes the connection,      *)
(* which rolls the open transaction back; setup_hook() reopens database.db *)
(* and keeps the table it finds.                                           *)
(***************************************************************************)
Restart ==
    /\ \E c \in Procs : proc[c].pc # "idle"
    /\ visible' = committed
    /\ proc' = [c \in Procs |-> IdleProc]
    /\ UNCHANGED <<committed, started>>

\* the commands that use the policies table
StoreNext ==
    \/ \E c \in Procs : InvokeInsert(c)
    \/ \E c \in Procs : InvokeRemove(c)
    \/ \E c \in Procs : InvokePass(c)
    \/ \E c \in Procs : InsertExists(c)
    \/ \E c \in Procs : InsertFetch(c)
    \/ \E c \in Procs : InsertExecute(c)
    \/ \E c \in Procs : InsertCommit(c)
    \/ \E c \in Procs : RemoveExists(c)
    \/ \E c \in Procs : RemoveExecute(c)
    \/ \E c \in Procs : RemoveCommit(c)
    \/ \E c \in Procs : PassList(c)
    \/ \E c \in Procs : PassEntry(c)
    \/ \E c \in Procs : Cancel(c)
    \/ Restart

\* the floor command reads and writes nothing but its own locals
FloorNext ==
    \/ \E c \in Procs : InvokeFloor(c)
    \/ \E c \in Procs : FloorSearch(c)
    \/ \E c \in Procs : FloorEntry(c)
    \/ \E c \in Procs : Cancel(c)
    \/ Restart

Next == StoreNext \/ FloorNext

Spec == Init /\ [][Next]_vars

StoreSpec == Init /\ [][StoreNext]_vars

FloorSpec == Init /\ [][FloorNext]_vars

(***************************************************************************)
(* Vocabulary of the properties.                                           *)
(***************************************************************************)
\* c takes a step of its own from the await `at`: not an abandonment, not a restart
Steps(c, at) ==
    /\ proc[c].pc = at
    /\ proc'[c].pc \notin {at, "idle"}
    /\ proc'[c].outcome # "cancelled"

\* the command `cmd` of c returns in this step
Returns(c, cmd) ==
    /\ proc[c].cmd = cmd
    /\ proc[c].pc \notin {"idle", "done"}
    /\ proc'[c].pc = "done"
    /\ proc'[c].outcome # "cancelled"

Occurrences(seq, x) == Cardinality({i \in DOMAIN seq : seq[i] = x})

\* the run of pass or floor in slot c has come to its end without being abandoned
Finished(c, cmd) ==
    /\ proc[c].cmd = cmd
    /\ proc[c].pc = "done"
    /\ proc[c].outcome # "cancelled"

(***************************************************************************)
(* C1.  No (guild_id, policy_id) pair is stored in more than one row, in   *)
(* any state reachable by any interleaving of insert and remove runs.      *)
(* Refuted: two insert runs for the same pair both pass the exists check   *)
(* before either executes its INSERT.                                      *)
(***************************************************************************)
C1_PairIsUnique ==
    \A g \in Guilds, p \in Policies :
        /\ RowCount(visible, g, p) <= 1
        /\ RowCount(committed, g, p) <= 1

(***************************************************************************)
(* C2.  A floor run over a non-empty candidate list emits exactly one      *)
(* output per candidate, in search order: a record where the fetch gave a  *)
(* price, an error message otherwise, whatever the fetch outcomes (price,  *)
(* absent, upstream error, transport or parse failure).                    *)
(* Refuted: a transport or parse failure is not a FetchingException and    *)
(* ends the loop.                                                          *)
(***************************************************************************)
C2_OneOutputPerCandidate ==
    \A c \in Procs :
        (Finished(c, "floor") /\ proc[c].search = "hits") =>
            /\ Len(proc[c].out) = Len(proc[c].items)
            /\ Len(proc[c].fetched) = Len(proc[c].items)
            /\ \A i \in DOMAIN proc[c].out :
                 /\ proc[c].out[i].collection = proc[c].items[i]
                 /\ (proc[c].out[i].kind = "floor_price") <=> (proc[c].fetched[i] = "price")

(***************************************************************************)
(* C3.  In a pass run over a non-empty list, an entry whose resolution     *)
(* fails (no hit, 404, another non-2xx status) or whose composite read     *)
(* fails (404, another non-2xx status) is skipped silently, and the run    *)
(* still sends the one report built from the other entries.                *)
(* Refuted: a non-2xx, non-404 answer of the search request raises         *)
(* FetchingException, which _pass does not catch.                          *)
(***************************************************************************)
C3_FailedEntryIsSkipped ==
    \A c \in Procs :
        ( /\ Finished(c, "pass")
          /\ proc[c].items # <<>>
          /\ \A i \in DOMAIN proc[c].fetched :
               proc[c].fetched[i] \in {"ok", "no_hit", "search_error", "policy_404", "policy_error"} )
        => /\ proc[c].sent
           /\ Len(proc[c].fetched) = Len(proc[c].items)
           /\ Len(proc[c].out) = Occurrences(proc[c].fetched, "ok")

(***************************************************************************)
(* C4.  In a pass run, a last-sale read that fails with a non-2xx status   *)
(* other than 404 does not abort the run: it reaches the end of the list   *)
(* and sends the report.                                                   *)
(* Refuted: fetch_last_sale raises FetchingException inside the f-string   *)
(* of _pass, which nothing catches.                                        *)
(***************************************************************************)
C4_LastSaleFailureDoesNotAbort ==
    \A c \in Procs :
        ( /\ Finished(c, "pass")
          /\ proc[c].items # <<>>
          /\ \A i \in DOMAIN proc[c].fetched :
               proc[c].fetched[i] \in {"ok", "no_hit", "policy_404", "policy_error", "sale_error"} )
        => /\ proc[c].sent
           /\ Len(proc[c].fetched) = Len(proc[c].items)

(***************************************************************************)
(* C5.  At every point where another command can run, the rows that        *)
(* policy_id_exists and get_policy_ids can see are exactly the committed   *)
(* rows, also when the writing run is abandoned between its statement and  *)
(* its commit.                                                             *)
(* Refuted: execute and commit are two awaits on one shared connection.    *)
(***************************************************************************)
C5_ReadsSeeCommittedRows ==
    visible = committed

\* an insert of a pair the table holds returns at the pre-check, nothing written
C6_RejectedBeforeWrite(c) ==
    ( /\ Steps(c, "insert_exists")
      /\ RowCount(visible, proc[c].guild_id, proc[c].policy_id) >= 1 )
    => /\ proc'[c].pc = "done"
       /\ proc'[c].outcome = "already_added"
       /\ visible' = visible
       /\ committed' = committed

\* after the step, exists returns true and the list holds the policy id once
C6_StoredOnce(c) ==
    /\ policy_id_exists(visible', proc[c].guild_id, proc[c].policy_id)
    /\ Occurrences(get_policy_ids(visible', proc[c].guild_id), proc[c].policy_id) = 1

(***************************************************************************)
(* C6 as stated.  Every insert run that no other command overlaps, that is *)
(* not rejected by the exists pre-check and whose search request was       *)
(* answered leaves the pair stored: exists returns true and the list holds *)
(* the policy id exactly once; and an insert of a stored pair is rejected  *)
(* before any write.                                                       *)
(* Refuted: insert returns without writing when the search request         *)
(* resolves nothing ("This doesn't seem to be a valid policy id!").        *)
(***************************************************************************)
C6_EveryTrackIsStored ==
    [][\A c \in Procs :
         /\ ( /\ Returns(c, "insert")
              /\ proc'[c].alone
              /\ proc'[c].outcome \notin {"already_added", "fetch_error", "unexpected_error"} )
              => C6_StoredOnce(c)
         /\ C6_RejectedBeforeWrite(c)]_vars

(***************************************************************************)
(* C6 as amended.  Every insert run that no other command overlaps and     *)
(* that reports success leaves the pair stored: exists returns true and    *)
(* the list holds the policy id exactly once; and an insert of a stored    *)
(* pair is rejected by the exists pre-check before any write, the table    *)
(* unchanged.                                                              *)
(***************************************************************************)
C6_SuccessfulTrackIsStored ==
    [][\A c \in Procs :
         /\ ( /\ Returns(c, "insert")
              /\ proc'[c].alone
              /\ proc'[c].outcome = "added" ) => C6_StoredOnce(c)
         /\ C6_RejectedBeforeWrite(c)]_vars

C6_Witness ==
    \E c \in Procs :
        /\ Finished(c, "insert")
        /\ proc[c].outcome = "added"
        /\ proc[c].alone
        /\ started >= 2
        /\ RowCount(visible, proc[c].guild_id, proc[c].policy_id) = 1

(***************************************************************************)
(* C7.  The DELETE of remove leaves no row of the pair, however many the   *)
(* table held, so exists returns false after it and after a remove run     *)
(* that no other command overlaps; a remove of a pair that is not stored   *)
(* raises nothing and leaves the table unchanged.                          *)
(***************************************************************************)
C7_UntrackRemovesThePair ==
    [][\A c \in Procs :
         /\ Steps(c, "remove_execute")
              => ~policy_id_exists(visible', proc[c].guild_id, proc[c].policy_id)
         /\ ( /\ Returns(c, "remove")
              /\ proc'[c].alone
              /\ proc'[c].outcome = "removed" )
              => ~policy_id_exists(visible', proc[c].guild_id, proc[c].policy_id)
         /\ ( /\ Steps(c, "remove_exists")
              /\ RowCount(visible, proc[c].guild_id, proc[c].policy_id) = 0 )
              => /\ proc'[c].pc = "done"
                 /\ proc'[c].outcome = "not_added"
                 /\ visible' = visible
                 /\ committed' = committed]_vars

\* the DELETE has just run on a table that held the pair twice
C7_Witness ==
    \E c \in Procs :
        /\ proc[c].cmd = "remove"
        /\ proc[c].pc = "remove_commit"
        /\ RowCount(committed, proc[c].guild_id, proc[c].policy_id) >= 2
        /\ RowCount(visible, proc[c].guild_id, proc[c].policy_id) = 0

(***************************************************************************)
(* C8.  A floor run whose search request yields zero hits (a 404, no       *)
(* collections field, an empty collections list) ends with the not-found   *)
(* outcome, having issued the search request and no other.                 *)
(***************************************************************************)
C8_ZeroHitsIsNotFound ==
    \A c \in Procs :
        (proc[c].cmd = "floor" /\ proc[c].search \in {"404", "missing", "empty"}) =>
            /\ proc[c].pc = "done"
            /\ proc[c].outcome = "not_found"
            /\ proc[c].reqs = 1
            /\ proc[c].out = <<>>

C8_Witness ==
    \E c \in Procs :
        /\ Finished(c, "floor")
        /\ proc[c].search = "404"
        /\ proc[c].outcome = "not_found"
        /\ proc[c].reqs = 1

(***************************************************************************)
(* C9.  For a guild with no row in the table, get_policy_ids returns the   *)
(* empty list and the pass run ends there with the list-is-empty outcome:  *)
(* no HTTP request is issued and no report is sent.                        *)
(***************************************************************************)
C9_EmptyListShortCircuits ==
    [][\A c \in Procs :
         ( /\ Steps(c, "pass_list")
           /\ GuildRowCount(visible, proc[c].guild_id) = 0 )
         => /\ get_policy_ids(visible, proc[c].guild_id) = <<>>
            /\ proc'[c].pc = "done"
            /\ proc'[c].outcome = "list_empty"
            /\ proc'[c].reqs = 0
            /\ ~proc'[c].sent
            /\ proc'[c].out = <<>>]_vars

\* a guild without rows has asked for its report while another guild tracks something
C9_Witness ==
    \E c \in Procs :
        /\ Finished(c, "pass")
        /\ proc[c].outcome = "list_empty"
        /\ GuildRowCount(visible, proc[c].guild_id) = 0
        /\ visible # <<>>
        /\ proc[c].reqs = 0
        /\ ~proc[c].sent

(***************************************************************************)
(* C10.  Every entry of the description of a pass run carries the number   *)
(* i+1 of the 0-based position i of its policy id in the list read at the  *)
(* start of the run; the numbers increase strictly along the description;  *)
(* the entries are exactly the positions that were answered, so a skipped  *)
(* position leaves a gap in the numbers.                                   *)
(***************************************************************************)
C10_EntriesNumberedByPosition ==
    \A c \in Procs :
        proc[c].cmd = "pass" =>
            LET out == proc[c].out
                items == proc[c].items
                fetched == proc[c].fetched
            IN /\ \A k \in DOMAIN out :
                    /\ out[k].number \in DOMAIN fetched
                    /\ out[k].number \in DOMAIN items
                    /\ out[k].policy_id = items[out[k].number]
                    /\ fetched[out[k].number] = "ok"
               /\ \A k, l \in DOMAIN out : k < l => out[k].number < out[l].number
               /\ \A i \in DOMAIN fetched :
                    fetched[i] = "ok" => \E k \in DOMAIN out : out[k].number = i

\* a report was sent whose first entry is number 2: position 1 was skipped
C10_Witness ==
    \E c \in Procs :
        /\ Finished(c, "pass")
        /\ proc[c].sent
        /\ Len(proc[c].items) >= 2
        /\ proc[c].fetched[1] # "ok"
        /\ proc[c].out # <<>>
        /\ proc[c].out[1].number = 2
        /\ proc[c].items[1] # proc[c].items[2]

====
